---- MODULE Spec2Model ----
(***************************************************************************)
(* Model of the per-agent runtime of jinrou_sys: the Agent state updated   *)
(* by set_packet, the timeout wrapper around Agent.action (a controller    *)
(* thread supervising a worker thread), the request dispatcher with the    *)
(* role overrides, and the utterance generation loop.                      *)
(***************************************************************************)
EXTENDS Integers, Sequences, FiniteSets, TLC

(* ------------------------------ bounds --------------------------------- *)
\* clock ticks observed during one call of action
MaxTicks == 2
\* entries a stored history can hold in the explored runs
MaxHist == 2

(* ------------------------- program constants --------------------------- *)
\* agent.py:311
MAX_REGENERATION_ATTEMPTS == 3
\* agent.py:96, the divisor that turns setting.timeout.action into seconds
MsPerSecond == 1000
\* time is discrete: every event happens at a multiple of TickMs milliseconds
\* after thread.start()
TickMs == MsPerSecond

None == "None"
Skip == "Skip"
Absent == "absent"

Roles == {"VILLAGER", "WEREWOLF"}
Agents == {"a1", "a2"}
AgentName == "a1"
Comment == "comment"

Lifecycle == {"INITIALIZE", "DAILY_INITIALIZE", "DAILY_FINISH", "FINISH"}
Requests == {"NAME", "TALK", "WHISPER", "VOTE", "DIVINE", "GUARD", "ATTACK"}
              \cup Lifecycle \cup {"UNKNOWN"}

\* values of setting.timeout.action (milliseconds) carried by packets
ActionTimeouts == {0, 100, 1500}

\* self.info / packet.info: None, or a snapshot whose status_map marks the
\* agents of `alive` ALIVE
NoInfo == [present |-> FALSE, alive |-> {}]
Infos == [present : {TRUE}, alive : {{}, {"a1"}, {"a1", "a2"}}]

\* self.setting / packet.setting: None, or a Setting with timeout.action
NoSetting == [present |-> FALSE, action |-> 0]
Settings == [present : {TRUE}, action : ActionTimeouts]

\* latest_strategy_core: None, or a dict whose keys may be missing
NoneCore == [kind |-> "None", target_vote |-> Absent, target_attack |-> Absent]
EmptyCore == [kind |-> "dict", target_vote |-> Absent, target_attack |-> Absent]
\* "zz" names no agent of the game
Cores == { EmptyCore,
           [kind |-> "dict", target_vote |-> "a2", target_attack |-> Absent],
           [kind |-> "dict", target_vote |-> "zz", target_attack |-> "a2"],
           [kind |-> "dict", target_vote |-> Absent, target_attack |-> "zz"] }

Texts == {"u1", "u2"}

\* the packets whose new talk and whisper entries are drawn from H
Packets(H) == [request : Requests,
               info : Infos \cup {NoInfo},
               setting : Settings \cup {NoSetting},
               talk_history : H,
               whisper_history : H]

\* Talk records (day, agent, text) of talk packets and of whisper packets; the
\* talk records come in any order of days, and two of them share a day
TalkEntries == { [day |-> 2, agent |-> "a1", text |-> "x"],
                 [day |-> 1, agent |-> "a1", text |-> "x"],
                 [day |-> 1, agent |-> "a2", text |-> "y"] }
WhisperEntries == { [day |-> 1, agent |-> "a2", text |-> "w"] }

\* the sequences of at most two records of E
UpToTwo(E) == {<<>>} \cup {<<e>> : e \in E} \cup {<<e, f>> : e \in E, f \in E}

\* the packets that carry history entries: a lifecycle request or a talk
\* request, with game info, with or without a setting
HistPackets == [request : {"INITIALIZE", "TALK"},
                info : {[present |-> TRUE, alive |-> {"a1", "a2"}]},
                setting : {NoSetting, [present |-> TRUE, action |-> 1500]},
                talk_history : UpToTwo(TalkEntries),
                whisper_history : UpToTwo(WhisperEntries)]

\* responses of LLMClient.generate_response: the dict of the parsed JSON, or
\* the error dict of its except branches
ErrorResponses == [error : {"e"}, text : {Skip}]
GenResponses == ErrorResponses
                  \cup [utterance : {"u1"}, core_strategy : Cores]
                  \cup [utterance : Texts \cup {Skip}]
                  \cup [core_strategy : Cores \ {EmptyCore}]
CheckResponses == ErrorResponses
                  \cup [is_consistent : BOOLEAN]
                  \cup [reasoning : {"r"}]
RegenResponses == ErrorResponses
                  \cup [utterance : Texts \cup {Skip}]
                  \cup [reasoning : {"r"}]

\* dict.get(k, default)
Get(d, k, default) == IF k \in DOMAIN d THEN d[k] ELSE default

Val(v) == [k |-> "val", v |-> v]
Exc(v) == [k |-> "exc", v |-> v]
NoResult == Exc("No result")
NoOutcome == [k |-> "none", v |-> None]

\* packet is the parameter of set_packet: the new history entries of the
\* packet being stored, gone when the controller goes on to action
\* core_late tells whether latest_strategy_core was last written by a worker
\* whose call the controller had declared expired
VARIABLES role, kill_on_timeout,
          request, info, setting, talk_history, whisper_history,
          latest_strategy_core, core_late, packet,
          pc, cur, workers, elapsed, log, expired, outcome, ret

agentVars == <<request, info, setting, talk_history, whisper_history, packet>>
configVars == <<role, kill_on_timeout>>
coreVars == <<latest_strategy_core, core_late>>
vars == <<role, kill_on_timeout, request, info, setting, talk_history,
          whisper_history, latest_strategy_core, core_late, packet, pc, cur,
          workers,
          elapsed, log, expired, outcome, ret>>

NoPacket == [talk_history |-> <<>>, whisper_history |-> <<>>]

\* the threads that can be alive at once: the worker of the current call and
\* one abandoned by an earlier call
Slots == {1, 2}

\* the locals of one run of _generate_llm_utterance (text is
\* current_utterance_text, attempt the loop index), and a record of the service
\* calls it has made: gen, ver and rev count the generation, verifier and
\* reviser calls; genResp tells what the generation call reported, genText and
\* core are the utterance and the core of its response; verdicts lists the
\* verifier's answers, lastRev is the reviser's latest text and revSkip tells
\* whether some revision was "Skip"; hadCore tells whether the agent held a
\* core with a target when the run began; history is utterance_history_json;
\* failed tells whether the latest verifier ("ver") or reviser ("rev") response
\* was the error dict of a service failure
NoLoop == [text |-> Skip, attempt |-> 0, gen |-> 0, ver |-> 0, rev |-> 0,
           genResp |-> None, genText |-> None, core |-> NoneCore,
           verdicts |-> <<>>, lastRev |-> None, revSkip |-> FALSE,
           hadCore |-> FALSE, history |-> <<>>, failed |-> "none"]

\* a thread that does not exist (yet): res and the handler's position
\* usedLate tells whether the handler took its target from a core written
\* by a worker of an expired call
FreeWorker == [st |-> "free", hpc |-> "none", stopReq |-> FALSE, res |-> NoResult,
               doneAt |-> -1, loop |-> NoLoop, usedLate |-> FALSE]

\* what the latest run of _generate_llm_utterance returned, and its locals then
NoRet == [returned |-> FALSE, value |-> None, loop |-> NoLoop]

Init ==
    /\ role \in Roles
    /\ kill_on_timeout \in BOOLEAN
    /\ request = None
    /\ info = NoInfo
    /\ setting = NoSetting
    /\ talk_history = <<>>
    /\ whisper_history = <<>>
    /\ latest_strategy_core = NoneCore
    /\ core_late = FALSE
    /\ packet = NoPacket
    /\ pc = "recv"
    /\ cur = 1
    /\ workers = [i \in Slots |-> FreeWorker]
    /\ elapsed = 0
    /\ log = <<>>
    /\ expired = FALSE
    /\ outcome = NoOutcome
    /\ ret = NoRet

(* ------------------------------ set_packet ----------------------------- *)
IsAlive(w) == w.st = "running"

\* a set_packet that clears the histories before it merges the new entries
M_StoredHistoryClearFirst(req, old, new) ==
    (IF req = "INITIALIZE" THEN <<>> ELSE old) \o new

\* a set_packet that puts the new entries in front of the stored ones
M_StoredHistoryNewestFirst(req, old, new) ==
    IF req = "INITIALIZE" THEN <<>> ELSE new \o old

\* agent.py:131-137: a history after set_packet: extended by the packet's
\* entries, then emptied if the request is INITIALIZE
StoredHistory(req, old, new) ==
    IF req = "INITIALIZE" THEN <<>> ELSE old \o new

\* Agent.set_packet: the controller stores the packet's fields
SetPacket(p) ==
    /\ pc = "recv"
    /\ Len(talk_history) + Len(p.talk_history) <= MaxHist
    /\ Len(whisper_history) + Len(p.whisper_history) <= MaxHist
    /\ packet' = [talk_history |-> p.talk_history,
                  whisper_history |-> p.whisper_history]
    /\ request' = p.request
    /\ info' = IF p.info.present THEN p.info ELSE info
    /\ setting' = IF p.setting.present THEN p.setting ELSE setting
    /\ talk_history' = StoredHistory(p.request, talk_history, p.talk_history)
    /\ whisper_history' =
           StoredHistory(p.request, whisper_history, p.whisper_history)
    /\ pc' = "call"
    /\ UNCHANGED <<configVars, coreVars, cur, workers, elapsed, log,
                   expired, outcome, ret>>

(* --------------------------- timeout wrapper --------------------------- *)
\* a wrapper that takes one second as the timeout when no settings came
M_TimeoutValueDefault ==
    (IF setting.present THEN setting.action ELSE MsPerSecond) \div MsPerSecond

\* agent.py:96
TimeoutValue ==
    (IF setting.present THEN setting.action ELSE 0) \div MsPerSecond

\* the slot the next thread takes: threads that ended are reclaimed
NextSlot == CHOOSE s \in Slots :
              /\ ~IsAlive(workers[s])
              /\ \A t \in Slots : ~IsAlive(workers[t]) => s <= t

\* agent.py:82-96: res = Exception("No result"), thread.start(), timeout_value
ActionCall ==
    /\ pc = "call"
    /\ \E s \in Slots : ~IsAlive(workers[s])
    /\ cur' = NextSlot
    /\ workers' = [s \in Slots |->
                     IF s = NextSlot
                       THEN [FreeWorker EXCEPT !.st = "running", !.hpc = "dispatch"]
                     ELSE IF IsAlive(workers[s]) THEN workers[s]
                     ELSE FreeWorker]
    /\ elapsed' = 0
    /\ pc' = IF TimeoutValue > 0 THEN "join_timeout" ELSE "join"
    /\ packet' = NoPacket
    /\ UNCHANGED <<configVars, request, info, setting, talk_history,
                   whisper_history, coreVars, log, expired, outcome,
                   ret>>

InCall == pc \in {"join", "join_timeout", "alive", "stop", "check"}

\* time passes while the worker of the latest call is running; once it has
\* ended the controller goes through join, is_alive and the result check
\* without delay
Tick ==
    /\ InCall \/ pc = "returned"
    /\ IsAlive(workers[cur])
    /\ elapsed < MaxTicks * TickMs
    /\ elapsed' = elapsed + TickMs
    /\ UNCHANGED <<configVars, agentVars, coreVars, pc, cur, workers,
                   log, expired, outcome, ret>>

\* agent.py:111 thread.join()
JoinReturn ==
    /\ pc = "join"
    /\ ~IsAlive(workers[cur])
    /\ pc' = "check"
    /\ UNCHANGED <<configVars, agentVars, coreVars, cur, workers,
                   elapsed, log, expired, outcome, ret>>

\* agent.py:98 thread.join(timeout=timeout_value)
JoinTimeout ==
    /\ pc = "join_timeout"
    /\ \/ ~IsAlive(workers[cur])
       \/ elapsed >= TimeoutValue * MsPerSecond
    /\ pc' = "alive"
    /\ UNCHANGED <<configVars, agentVars, coreVars, cur, workers,
                   elapsed, log, expired, outcome, ret>>

\* agent.py:104
KillOnTimeout == kill_on_timeout

\* agent.py:99-104: is_alive(), the timeout warning, the kill flag
AliveCheck ==
    /\ pc = "alive"
    /\ IF IsAlive(workers[cur])
         THEN /\ log' = Append(log, "timeout")
              /\ expired' = TRUE
              /\ pc' = IF KillOnTimeout THEN "stop" ELSE "check"
         ELSE /\ pc' = "check"
              /\ UNCHANGED <<log, expired, ret>>
    /\ UNCHANGED <<configVars, agentVars, coreVars, cur, workers,
                   elapsed, outcome, ret>>

\* StoppableThread.stop(): asks the interpreter to raise SystemExit in the
\* thread; a thread that already ended is left alone
ThreadStop(w) == IF IsAlive(w) THEN [w EXCEPT !.stopReq = TRUE] ELSE w

\* agent.py:105-109: thread.stop() and the forced-termination warning
Stop ==
    /\ pc = "stop"
    /\ workers' = [workers EXCEPT ![cur] = ThreadStop(@)]
    /\ log' = log \o <<"stop", "killed">>
    /\ pc' = "check"
    /\ UNCHANGED <<configVars, agentVars, coreVars, cur, elapsed,
                   expired, outcome, ret>>

\* agent.py:112-114: raise res if it is an exception, else return it
FinalResult(w) == w.res

FinalCheck ==
    /\ pc = "check"
    /\ outcome' = FinalResult(workers[cur])
    /\ pc' = "returned"
    /\ UNCHANGED <<configVars, agentVars, coreVars, cur, workers,
                   elapsed, log, expired, ret>>

\* the caller of action: it sends the result and waits for the next packet;
\* after a failed call it gives up (it reports or disconnects). The finished
\* call's outcome and log, and threads that ended, are gone by then
Respond ==
    /\ pc = "returned"
    /\ outcome.k # "exc"
    /\ pc' = "recv"
    /\ outcome' = NoOutcome
    /\ log' = <<>>
    /\ expired' = FALSE
    /\ ret' = NoRet
    /\ elapsed' = 0
    /\ workers' = [s \in Slots |-> IF IsAlive(workers[s]) THEN workers[s] ELSE FreeWorker]
    /\ UNCHANGED <<configVars, agentVars, coreVars, cur>>

\* a caller that reports a failed call and goes on with the next packet; the
\* worker of the failed call may still be running
Report ==
    /\ pc = "returned"
    /\ outcome.k = "exc"
    /\ pc' = "recv"
    /\ outcome' = NoOutcome
    /\ log' = <<>>
    /\ expired' = FALSE
    /\ ret' = NoRet
    /\ elapsed' = 0
    /\ workers' = [s \in Slots |-> IF IsAlive(workers[s]) THEN workers[s] ELSE FreeWorker]
    /\ UNCHANGED <<configVars, agentVars, coreVars, cur>>

(* ------------------------------ handlers ------------------------------- *)
\* Agent.get_alive_agents
AliveAgents == IF info.present THEN info.alive ELSE {}

\* random.choice(seq): any member, IndexError on an empty sequence
RandomChoice(S) == IF S = {} THEN {Exc("IndexError")} ELSE {Val(a) : a \in S}

\* the test `self.latest_strategy_core and key in self.latest_strategy_core`
CoreHas(core, key) == core.kind = "dict" /\ core # EmptyCore /\ core[key] # Absent

\* a vote that ignores the core
M_VoteRandom == RandomChoice(AliveAgents)

\* Agent.vote (Villager.vote and Werewolf.vote call it)
Vote ==
    IF CoreHas(latest_strategy_core, "target_vote")
         /\ latest_strategy_core.target_vote \in AliveAgents
      THEN {Val(latest_strategy_core.target_vote)}
      ELSE RandomChoice(AliveAgents)

\* Werewolf.attack, Agent.attack for the other roles
Attack ==
    IF role = "WEREWOLF"
         /\ CoreHas(latest_strategy_core, "target_attack")
         /\ latest_strategy_core.target_attack \in AliveAgents
      THEN {Val(latest_strategy_core.target_attack)}
      ELSE RandomChoice(AliveAgents)

\* the handlers that run _generate_llm_utterance: talk of every role, whisper
\* of the werewolf
UsesLoop(req) == req = "TALK" \/ (req = "WHISPER" /\ role = "WEREWOLF")

\* a dispatcher that rejects the requests it has no handler for
M_HandleNoDefault(req) ==
    CASE req = "NAME" -> {Val(AgentName)}
      [] req = "WHISPER" -> {Val(Comment)}
      [] req = "VOTE" -> Vote
      [] req \in {"DIVINE", "GUARD"} -> RandomChoice(AliveAgents)
      [] req = "ATTACK" -> Attack
      [] OTHER -> {Exc("ValueError")}

\* vote, or the werewolf's attack, returns the target of the core
HonorsCore(req) ==
    \/ /\ req = "VOTE"
       /\ CoreHas(latest_strategy_core, "target_vote")
       /\ latest_strategy_core.target_vote \in AliveAgents
    \/ /\ req = "ATTACK"
       /\ role = "WEREWOLF"
       /\ CoreHas(latest_strategy_core, "target_attack")
       /\ latest_strategy_core.target_attack \in AliveAgents

\* Agent.action for the requests whose handler is one step: the results it can
\* produce
Handle(req) ==
    CASE req = "NAME" -> {Val(AgentName)}
      [] req = "WHISPER" -> {Val(Comment)}
      [] req = "VOTE" -> Vote
      [] req \in {"DIVINE", "GUARD"} -> RandomChoice(AliveAgents)
      [] req = "ATTACK" -> Attack
      [] OTHER -> {Val(None)}

\* execute_with_timeout: res = func(...) or res = e, and the thread ends: what
\* is left of the thread after the assignment touches no state
SetRes(w, r, slot) ==
    [w EXCEPT !.res = r, !.st = "dead", !.hpc = "none", !.loop = NoLoop,
              !.doneAt = IF slot = cur THEN elapsed ELSE -1]

Running(i) == workers[i].st = "running"

\* the worker enters action(): match self.request, and the whole handler when
\* it makes no service call
Dispatch(i) ==
    /\ Running(i)
    /\ workers[i].hpc = "dispatch"
    /\ ~UsesLoop(request)
    /\ \E r \in Handle(request) :
         workers' = [workers EXCEPT
                       ![i] = [SetRes(@, r, i) EXCEPT
                                 !.usedLate = core_late /\ HonorsCore(request)]]
    /\ UNCHANGED <<configVars, agentVars, coreVars, pc, cur, elapsed,
                   log, expired, outcome, ret>>

(* ------------------------ history serialization ----------------------- *)
\* agent.py:286-301: the dicts built from the Talk records of a history
Tagged(seq, type) ==
    [k \in 1..Len(seq) |-> [day |-> seq[k].day, agent |-> seq[k].agent,
                            text |-> seq[k].text, type |-> type]]

\* agent.py:304: the key (x['day'], x.get('turn', 0))
SortKey(x) == <<x.day, Get(x, "turn", 0)>>

\* the order of Python tuples
KeyLeq(a, b) == a[1] < b[1] \/ (a[1] = b[1] /\ a[2] <= b[2])

\* a sort that puts a record in front of the records of equal key
RECURSIVE M_InsertBeforeEqual(_, _)
M_InsertBeforeEqual(x, s) ==
    IF s = <<>> THEN <<x>>
    ELSE IF ~KeyLeq(SortKey(x), SortKey(s[Len(s)])) THEN Append(s, x)
    ELSE Append(M_InsertBeforeEqual(x, SubSeq(s, 1, Len(s) - 1)), s[Len(s)])

\* x put into the sorted s behind every record whose key is not greater
RECURSIVE Insert(_, _)
Insert(x, s) ==
    IF s = <<>> THEN <<x>>
    ELSE IF KeyLeq(SortKey(s[Len(s)]), SortKey(x)) THEN Append(s, x)
    ELSE Append(Insert(x, SubSeq(s, 1, Len(s) - 1)), s[Len(s)])

\* list.sort(key=...): ascending, records of equal key in their given order
RECURSIVE StableSort(_)
StableSort(s) ==
    IF s = <<>> THEN <<>>
    ELSE Insert(s[Len(s)], StableSort(SubSeq(s, 1, Len(s) - 1)))

\* agent.py:285-301: the talk records, then for the werewolf the whispers
Collected(talk, whisper, r) ==
    Tagged(talk, "Talk")
      \o (IF r = "WEREWOLF" THEN Tagged(whisper, "Whisper") ELSE <<>>)

\* Agent._get_utterance_history_json: the list that json.dumps writes out,
\* record after record
HistoryJson(talk, whisper, r) == StableSort(Collected(talk, whisper, r))

(* --------------------------- generation loop --------------------------- *)
\* a loop that looks for the error marker under another key
M_IsErrorWrongKey(r) == "err" \in DOMAIN r

\* agent.py:346
IsError(r) == "error" \in DOMAIN r

\* a loop that reads the verdict under another key
M_IsConsistentWrongKey(r) == Get(r, "consistent", FALSE)

\* a loop that takes a response without a verdict for a consistent one
M_IsConsistentDefaultTrue(r) == Get(r, "is_consistent", TRUE)

\* a loop that takes a failed verification for a pass
M_IsConsistentUnlessVerdict(r) == Get(r, "is_consistent", "error" \in DOMAIN r)

\* agent.py:371-372
IsConsistent(r) == Get(r, "is_consistent", FALSE)

\* a loop that returns the generated text instead of the current one
M_AcceptedTextOriginal(l) == l.genText

\* agent.py:375: the text returned on a consistent verdict
AcceptedText(l) == l.text

\* a loop that takes a response without an utterance for a revision
M_RevisedTextDefault(r) == Get(r, "utterance", "u1")

\* agent.py:396
RevisedText(r) == Get(r, "utterance", Skip)

\* a loop that allows one more iteration
M_MoreAttemptsOneMore(attempt) == attempt <= MAX_REGENERATION_ATTEMPTS

\* agent.py:353: the for loop goes on to another iteration
MoreAttempts(attempt) == attempt < MAX_REGENERATION_ATTEMPTS

\* a loop that falls back to the last revision instead of "Skip"
M_ExhaustedValueText(l) == l.text

\* agent.py:402: the value returned when the loop ends without a consistent
\* verdict
ExhaustedValue(l) == Skip

\* _generate_llm_utterance returns v with locals l; talk/whisper and action
\* return it in turn
LoopReturn(i, v, l) ==
    /\ workers' = [workers EXCEPT ![i] = SetRes(@, Val(v), i)]
    /\ ret' = [returned |-> TRUE, value |-> v, loop |-> l]

\* worker i runs although the controller declared its call expired: the
\* timeout of its call has been logged, or that call has returned (no call is
\* in progress, or the call in progress has another worker)
LateWorker(i) == expired \/ pc \in {"recv", "call"} \/ i # cur

\* the core is a dict that names a target
HasTarget(core) == core.kind = "dict" /\ core # EmptyCore

\* a loop that does not look whether game info has arrived
M_HasInfoAlways == TRUE

\* agent.py:316: the test `if not self.info` fails
HasInfo == info.present

\* a loop that leaves the core alone until the generation succeeded
M_ClearedCoreKept == latest_strategy_core

\* agent.py:324: the core while the generation call is pending
ClearedCore == NoneCore

\* agent.py:316-344: no info -> "Skip"; else clear the core and call the
\* generation service
LoopStart(i) ==
    /\ Running(i)
    /\ workers[i].hpc = "dispatch"
    /\ UsesLoop(request)
    /\ IF ~HasInfo
         THEN /\ LoopReturn(i, Skip, [workers[i].loop EXCEPT
                                        !.hadCore = HasTarget(latest_strategy_core)])
              /\ UNCHANGED coreVars
         ELSE /\ latest_strategy_core' = ClearedCore
              /\ core_late' = LateWorker(i)
              /\ workers' = [workers EXCEPT ![i].hpc = "gen",
                                            ![i].loop.gen = @ + 1,
                                            ![i].loop.text = Skip,
                                            ![i].loop.hadCore = HasTarget(latest_strategy_core),
                                            ![i].loop.history =
                                                HistoryJson(talk_history,
                                                            whisper_history, role)]
              /\ UNCHANGED ret
    /\ UNCHANGED <<configVars, agentVars, pc, cur, elapsed, log, expired, outcome>>

\* a loop that does not store the generated core
M_GeneratedCoreDropped(r) == NoneCore

\* agent.py:350
GeneratedCore(r) == Get(r, "core_strategy", EmptyCore)

\* agent.py:340-364: the generation response; on success the core is stored
\* and the first consistency check is requested
GenResponse(i, r) ==
    /\ Running(i)
    /\ workers[i].hpc = "gen"
    /\ IF IsError(r)
         THEN /\ LoopReturn(i, Skip,
                    [workers[i].loop EXCEPT
                       !.genResp = IF "error" \in DOMAIN r THEN "error" ELSE "ok"])
              /\ UNCHANGED coreVars
         ELSE /\ latest_strategy_core' = GeneratedCore(r)
              /\ core_late' = LateWorker(i)
              /\ workers' = [workers EXCEPT
                               ![i].loop.text = Get(r, "utterance", Skip),
                               ![i].loop.genResp =
                                   IF "error" \in DOMAIN r THEN "error" ELSE "ok",
                               ![i].loop.genText = Get(r, "utterance", Skip),
                               ![i].loop.core = Get(r, "core_strategy", EmptyCore),
                               ![i].loop.attempt = 0,
                               ![i].loop.ver = @ + 1,
                               ![i].hpc = "ver"]
              /\ UNCHANGED ret
    /\ UNCHANGED <<configVars, agentVars, pc, cur, elapsed, log, expired, outcome>>

\* agent.py:364-389: the verdict; consistent -> return the current text, else
\* request a revision
CheckResponse(i, r) ==
    /\ Running(i)
    /\ workers[i].hpc = "ver"
    /\ LET l == [workers[i].loop EXCEPT
                   !.verdicts = Append(@, "is_consistent" \in DOMAIN r
                                            /\ r.is_consistent),
                   !.failed = IF r \in ErrorResponses THEN "ver" ELSE "none"]
       IN  IF IsConsistent(r)
             THEN LoopReturn(i, AcceptedText(l), l)
             ELSE /\ workers' = [workers EXCEPT ![i].loop = [l EXCEPT !.rev = @ + 1],
                                                ![i].hpc = "rev"]
                  /\ UNCHANGED ret
    /\ UNCHANGED <<configVars, agentVars, coreVars, pc, cur, elapsed,
                   log, expired, outcome>>

\* agent.py:389-402 and back to 353-364: the revision; "Skip" breaks, another
\* attempt requests the next check, no attempt left returns "Skip"
RegenResponse(i, r) ==
    /\ Running(i)
    /\ workers[i].hpc = "rev"
    /\ LET t == RevisedText(r)
           l == [workers[i].loop EXCEPT
                   !.text = t,
                   !.lastRev = Get(r, "utterance", Skip),
                   !.revSkip = @ \/ Get(r, "utterance", Skip) = Skip,
                   !.failed = IF r \in ErrorResponses THEN "rev" ELSE "none",
                   !.attempt = @ + 1]
       IN  IF t # Skip /\ MoreAttempts(l.attempt)
             THEN /\ workers' = [workers EXCEPT ![i].loop = [l EXCEPT !.ver = @ + 1],
                                                ![i].hpc = "ver"]
                  /\ UNCHANGED ret
             ELSE LoopReturn(i, ExhaustedValue(l), l)
    /\ UNCHANGED <<configVars, agentVars, coreVars, pc, cur, elapsed,
                   log, expired, outcome>>

(* ---------------------------- thread ending ---------------------------- *)
\* the SystemExit requested by stop() is delivered before the handler
\* returned: it is no Exception, so execute_with_timeout does not catch it, res
\* keeps its value and the thread ends
WorkerKilled(i) ==
    /\ Running(i)
    /\ workers[i].stopReq
    /\ workers' = [workers EXCEPT ![i].st = "dead", ![i].hpc = "none",
                                  ![i].loop = NoLoop]
    /\ UNCHANGED <<configVars, agentVars, coreVars, pc, cur, elapsed,
                   log, expired, outcome, ret>>

WorkerStep(G, C, R) ==
    \E i \in Slots :
        \/ Dispatch(i)
        \/ LoopStart(i)
        \/ \E r \in G : GenResponse(i, r)
        \/ \E r \in C : CheckResponse(i, r)
        \/ \E r \in R : RegenResponse(i, r)
        \/ WorkerKilled(i)

ControllerStep ==
    \/ ActionCall
    \/ JoinReturn
    \/ JoinTimeout
    \/ AliveCheck
    \/ Stop
    \/ FinalCheck

\* the runtime fed packets from P and service responses from G, C and R
NextOn(P, G, C, R) ==
    \/ \E p \in P : SetPacket(p)
    \/ Respond
    \/ ControllerStep
    \/ Tick
    \/ WorkerStep(G, C, R)

\* packets that carry no history entries
Next == NextOn(Packets({<<>>}), GenResponses, CheckResponses, RegenResponses)

Spec == Init /\ [][Next]_vars

\* the runtime fed packets with history entries; the services answer a
\* generation with a text, a check with a verdict and a revision with "Skip"
HistNext == NextOn(HistPackets,
                   {[utterance |-> "u1"]},
                   [is_consistent : BOOLEAN],
                   {[utterance |-> Skip]})

HistSpec == Init /\ [][HistNext]_vars

\* the packets of a game in progress: talk and vote requests with game info,
\* with or without a setting
RetryPackets == [request : {"TALK", "VOTE"},
                 info : {[present |-> TRUE, alive |-> {"a1", "a2"}]},
                 setting : {NoSetting, [present |-> TRUE, action |-> 1500]},
                 talk_history : {<<>>},
                 whisper_history : {<<>>}]

\* the runtime under a caller that goes on after a failed call; the services
\* answer a generation with a text and a core that names a target
RetryNext ==
    \/ NextOn(RetryPackets,
              {[utterance |-> "u1",
                core_strategy |-> [kind |-> "dict", target_vote |-> "a2",
                                   target_attack |-> Absent]]},
              [is_consistent : BOOLEAN],
              {[utterance |-> Skip]})
    \/ Report

RetrySpec == Init /\ [][RetryNext]_vars

\* the controller runs whenever it can and time passes; nothing makes a
\* handler finish, and nothing makes a stop request take effect
FairSpec == Spec /\ WF_vars(ControllerStep) /\ WF_vars(Tick)

(* ------------------------- the timeout wrapper ------------------------- *)
\* the configured action deadline in milliseconds, 0 when there is none
Deadline == IF setting.present THEN setting.action ELSE 0

Returned == pc = "returned"
Worker == workers[cur]

\* the handler of the current call was still running when the deadline passed
Overran ==
    /\ Deadline > 0
    /\ \/ Worker.doneAt >= Deadline
       \/ IsAlive(Worker) /\ elapsed >= Deadline
       \/ Worker.st = "dead" /\ Worker.doneAt < 0

\* C1: once the wrapper has found the worker alive after the deadline, the
\* call fails with "No result", whatever the worker produces afterwards
C1_LateResultNeverReturned ==
    (Returned /\ expired) => outcome = NoResult

\* C2: with a positive deadline, a handler that runs longer than the deadline
\* makes the call fail with "No result", with or without the kill flag
C2_OverrunFails ==
    (Returned /\ Deadline > 0 /\ Worker.doneAt > Deadline) => outcome = NoResult

\* C3: a call made under a positive deadline returns to the caller, even when
\* the handler never finishes
C3_CallReturns ==
    (InCall /\ Deadline > 0) ~> Returned

\* C4: without a deadline (zero, or no settings) the call waits for the worker
\* and returns the handler's own result or exception; it never fails with
\* "No result" and never warns or stops the worker
C4_NoDeadlineWaits ==
    Deadline = 0 =>
        /\ InCall => pc \in {"join", "check"}
        /\ pc = "check" => ~IsAlive(Worker)
        /\ (InCall \/ Returned) => (log = <<>> /\ ~expired /\ ~Worker.stopReq)
        /\ Returned => /\ Worker.st = "dead"
                       /\ Worker.doneAt >= 0
                       /\ outcome = Worker.res
                       /\ outcome # NoResult

C4_Witness ==
    /\ Returned
    /\ ~setting.present
    /\ elapsed > 0
    /\ outcome = Exc("IndexError")

\* C5: an exception the handler raises before the deadline is what the caller
\* receives
C5_HandlerExceptionPropagates ==
    ( /\ Returned
      /\ Worker.doneAt >= 0
      /\ Worker.res.k = "exc"
      /\ Deadline = 0 \/ Worker.doneAt < Deadline )
    => outcome = Worker.res

\* C6: a termination is attempted exactly when the deadline expired with the
\* kill flag set: then the call logs the timeout, stops the thread, logs the
\* forced termination and fails; otherwise nothing is stopped, and never a
\* worker that finished before the deadline
C6_StopIffKillFlag ==
    Returned =>
        /\ (Overran /\ kill_on_timeout) =>
              (log = <<"timeout", "stop", "killed">> /\ outcome = NoResult)
        /\ (Overran /\ ~kill_on_timeout) => log = <<"timeout">>
        /\ ~Overran => log = <<>>

(* ------------------------- the generation loop ------------------------- *)
Calls(l) == <<l.gen, l.ver, l.rev>>

\* C7: when the generation call reports an error the loop returns "Skip" at
\* once: one generation call, no verifier call, no reviser call
C7_GenerationErrorSkips ==
    (ret.returned /\ ret.loop.genResp = "error")
    => (ret.value = Skip /\ Calls(ret.loop) = <<1, 0, 0>>)

C7_Witness ==
    /\ ret.returned
    /\ ret.loop.genResp = "error"

\* C8: when the first verdict is consistent, the loop has called the
\* generation service once, the verifier once and the reviser never, and it
\* returns the generated text
C8_ScenarioA ==
    (ret.returned /\ ret.loop.verdicts # <<>> /\ ret.loop.verdicts[1])
    => (Calls(ret.loop) = <<1, 1, 0>> /\ ret.value = ret.loop.genText)

C8_Witness ==
    /\ ret.returned
    /\ ret.loop.verdicts = <<TRUE>>
    /\ ret.value \in Texts

\* C9: when the verdicts are inconsistent, inconsistent, consistent, the loop
\* has called the generation service once, the verifier three times and the
\* reviser twice, and it returns the latest revision
C9_ScenarioB ==
    (ret.returned /\ ret.loop.verdicts = <<FALSE, FALSE, TRUE>>)
    => /\ Calls(ret.loop) = <<1, 3, 2>>
       /\ ~ret.loop.revSkip
       /\ ret.value = ret.loop.lastRev

C9_Witness ==
    /\ ret.returned
    /\ ret.loop.verdicts = <<FALSE, FALSE, TRUE>>
    /\ ret.loop.genText = "u1"
    /\ ret.value = "u2"

\* C10, as claimed: when all three verdicts are inconsistent and no revision
\* is "Skip", the reviser has been called twice and the loop returns "Skip"
C10_ScenarioC_TwoRevisions ==
    (ret.returned /\ ret.loop.verdicts = <<FALSE, FALSE, FALSE>> /\ ~ret.loop.revSkip)
    => (ret.loop.rev = 2 /\ ret.value = Skip)

\* C10, amended: when all three verdicts are inconsistent and no revision is
\* "Skip", the reviser has been called three times, once after every verdict,
\* and the loop returns "Skip"
C10_ScenarioC ==
    (ret.returned /\ ret.loop.verdicts = <<FALSE, FALSE, FALSE>> /\ ~ret.loop.revSkip)
    => /\ Calls(ret.loop) = <<1, MAX_REGENERATION_ATTEMPTS, MAX_REGENERATION_ATTEMPTS>>
       /\ ret.value = Skip

C10_Witness ==
    /\ ret.returned
    /\ ret.loop.verdicts = <<FALSE, FALSE, FALSE>>
    /\ ~ret.loop.revSkip
    /\ ret.loop.lastRev \in Texts

\* C11: when the reviser returns "Skip", or a response without an utterance,
\* the loop returns "Skip" in that very step: the worker makes no verifier or
\* reviser call after it, so every verdict so far was followed by one revision
C11_ScenarioD ==
    /\ \A i \in Slots : Running(i) => ~workers[i].loop.revSkip
    /\ (ret.returned /\ ret.loop.revSkip)
       => /\ ret.value = Skip
          /\ ret.loop.lastRev = Skip
          /\ ret.loop.gen = 1
          /\ ret.loop.ver = ret.loop.rev
          /\ ret.loop.ver = Len(ret.loop.verdicts)
          /\ \A k \in 1..Len(ret.loop.verdicts) : ~ret.loop.verdicts[k]

C11_Witness ==
    /\ ret.returned
    /\ ret.loop.revSkip
    /\ Calls(ret.loop) = <<1, 2, 2>>

\* C12: a returned text other than "Skip" is the text of the latest verifier
\* call (the generated text before any revision, the latest revision after),
\* and that call, the last one the loop made, judged it consistent; all the
\* verdicts before it were inconsistent
C12_SoleSuccessExit ==
    (ret.returned /\ ret.value # Skip)
    => /\ ret.loop.verdicts # <<>>
       /\ ret.loop.verdicts[Len(ret.loop.verdicts)]
       /\ \A k \in 1..(Len(ret.loop.verdicts) - 1) : ~ret.loop.verdicts[k]
       /\ ret.loop.ver = Len(ret.loop.verdicts)
       /\ ret.loop.rev = ret.loop.ver - 1
       /\ ret.value = IF ret.loop.rev = 0 THEN ret.loop.genText ELSE ret.loop.lastRev

C12_Witness ==
    /\ ret.returned
    /\ ret.value = "u2"
    /\ ret.loop.genText = "u1"
    /\ ret.loop.verdicts = <<FALSE, TRUE>>

Handled == Worker.st = "dead" /\ Worker.doneAt >= 0

\* C15: vote returns the core's target_vote whenever that agent is alive, and
\* the werewolf's attack returns the core's target_attack whenever that agent
\* is alive; with a target that is missing, dead or unknown the handler draws
\* from the alive agents, so that what it returns is alive (and is returned
\* whenever some agent is alive)
C15_TargetPolicy ==
    /\ (Handled /\ request = "VOTE")
       => IF /\ latest_strategy_core.kind = "dict"
             /\ latest_strategy_core.target_vote \in AliveAgents
            THEN Worker.res = Val(latest_strategy_core.target_vote)
            ELSE /\ Worker.res.k = "val" => Worker.res.v \in AliveAgents
                 /\ AliveAgents # {} => Worker.res.k = "val"
    /\ (Handled /\ request = "ATTACK" /\ role = "WEREWOLF")
       => IF /\ latest_strategy_core.kind = "dict"
             /\ latest_strategy_core.target_attack \in AliveAgents
            THEN Worker.res = Val(latest_strategy_core.target_attack)
            ELSE /\ Worker.res.k = "val" => Worker.res.v \in AliveAgents
                 /\ AliveAgents # {} => Worker.res.k = "val"

C15_Witness ==
    /\ Handled
    /\ request = "VOTE"
    /\ AliveAgents = {"a1", "a2"}
    /\ latest_strategy_core.target_vote = "a2"
    /\ Worker.res = Val("a2")

\* C16: vote and attack return an alive agent for every role, core and set of
\* alive agents, the empty set and the agent without game info included; they
\* never raise
C16_TargetInAliveSet ==
    (Handled /\ request \in {"VOTE", "ATTACK"})
    => (Worker.res.k = "val" /\ Worker.res.v \in AliveAgents)

(* ---------------------------- the histories ---------------------------- *)
\* C17: once set_packet has stored a packet whose request is INITIALIZE, the
\* talk history and the whisper history are empty, whatever entries the
\* packet carried and whatever was stored before
C17_InitializeClears ==
    request = "INITIALIZE" => (talk_history = <<>> /\ whisper_history = <<>>)

C17_Witness ==
    /\ pc = "call"
    /\ request = "INITIALIZE"
    /\ Len(packet.talk_history) = 2
    /\ packet.whisper_history # <<>>
    /\ talk_history = <<>>
    /\ whisper_history = <<>>

\* C18: set_packet with a request other than INITIALIZE leaves every stored
\* entry in its place and puts the packet's entries behind them, in the
\* packet's order; no other step, handler or serialization, changes a history
C18_AppendOnly ==
    [][ /\ (pc = "recv" /\ request' # "INITIALIZE")
           => /\ talk_history' = talk_history \o packet'.talk_history
              /\ whisper_history' = whisper_history \o packet'.whisper_history
        /\ pc # "recv" => UNCHANGED <<talk_history, whisper_history>>
      ]_vars

C18_Witness ==
    /\ pc = "call"
    /\ request = "TALK"
    /\ Len(packet.talk_history) = 1
    /\ Len(talk_history) = 2
    /\ talk_history[1] # talk_history[2]

\* h holds the records of src, in ascending order of day, the records of one
\* day in the order they have in src
StableByDay(h, src) ==
    /\ Len(h) = Len(src)
    /\ \A i \in 1..Len(h) : \A j \in 1..Len(h) : i < j => h[i].day <= h[j].day
    /\ \A d \in {src[k].day : k \in 1..Len(src)} \cup {h[k].day : k \in 1..Len(h)} :
          LET OfDay(x) == x.day = d
          IN  SelectSeq(h, OfDay) = SelectSeq(src, OfDay)

\* the stored talk records, and behind them the whisper records if the agent
\* is the werewolf
StoredRecords ==
    [k \in 1..Len(talk_history) |-> [type |-> "Talk"] @@ talk_history[k]]
      \o (IF role = "WEREWOLF"
            THEN [k \in 1..Len(whisper_history) |->
                    [type |-> "Whisper"] @@ whisper_history[k]]
            ELSE <<>>)

NoOps == Lifecycle \cup {"UNKNOWN"}

\* C20: for a lifecycle request and for a request of unknown kind, the
\* handler that ran to its end produced None and raised nothing, and the step
\* in which it ran changed neither a history nor the core
C20_NoOpRequests ==
    [][ /\ (request' \in NoOps /\ Handled') => workers'[cur'].res = Val(None)
        /\ \A i \in Slots :
              ( /\ request \in NoOps
                /\ workers[i].hpc = "dispatch"
                /\ workers'[i].hpc # "dispatch" )
              => UNCHANGED <<talk_history, whisper_history, latest_strategy_core>>
      ]_vars

C20_Witness ==
    /\ Returned
    /\ request = "UNKNOWN"
    /\ outcome = Val(None)
    /\ HasTarget(latest_strategy_core)

C22_OneWorkerAtATime ==
    Cardinality({i \in Slots : Running(i)}) <= 1

\* C23: no vote or attack takes its target from a core that a talk or
\* whisper worker stored after the controller had declared that worker's
\* call expired
C23_NoStaleCoreHonored ==
    \A i \in Slots : ~workers[i].usedLate

(* -------------------------- cost of one run ---------------------------- *)
\* C24: one run of the generation loop makes at most one generation call, at
\* most MAX_REGENERATION_ATTEMPTS verifier calls and as many reviser calls,
\* one call at a time: the generation first, then a verification, and after
\* every verification but a consistent one a revision
C24_BoundedCalls ==
    /\ \A i \in Slots :
          LET l == workers[i].loop
              at == workers[i].hpc
          IN  /\ l.gen <= 1
              /\ l.ver <= MAX_REGENERATION_ATTEMPTS
              /\ l.rev <= MAX_REGENERATION_ATTEMPTS
              /\ at \in {"none", "dispatch"} => Calls(l) = <<0, 0, 0>>
              /\ at = "gen" => Calls(l) = <<1, 0, 0>>
              /\ at = "ver" => (l.gen = 1 /\ l.ver = l.rev + 1)
              /\ at = "rev" => (l.gen = 1 /\ l.rev = l.ver)
    /\ ret.returned
          => /\ ret.loop.gen <= 1
             /\ ret.loop.ver <= MAX_REGENERATION_ATTEMPTS
             /\ ret.loop.rev <= MAX_REGENERATION_ATTEMPTS
             /\ ret.loop.ver > 0 => ret.loop.gen = 1
             /\ ret.loop.rev <= ret.loop.ver
             /\ ret.loop.ver <= ret.loop.rev + 1

C24_Witness ==
    \E i \in Slots :
        /\ workers[i].hpc = "rev"
        /\ Calls(workers[i].loop) =
              <<1, MAX_REGENERATION_ATTEMPTS, MAX_REGENERATION_ATTEMPTS>>

\* C25: while the agent has received no game info, talk, and the werewolf's
\* whisper, return "Skip" and no generation, verifier or reviser call is made
C25_NoInfoSkips ==
    ~info.present
    => /\ \A i \in Slots : /\ workers[i].hpc \notin {"gen", "ver", "rev"}
                           /\ Calls(workers[i].loop) = <<0, 0, 0>>
       /\ ret.returned => (ret.value = Skip /\ Calls(ret.loop) = <<0, 0, 0>>)
       /\ (Handled /\ UsesLoop(request)) => Worker.res = Val(Skip)

C25_Witness ==
    /\ ~info.present
    /\ Returned
    /\ request = "WHISPER"
    /\ role = "WEREWOLF"
    /\ ret.returned
    /\ outcome = Val(Skip)

====
